---- MODULE Spec2Model ----
(***************************************************************************)
(* Model of the tool-calling conversation loop of index.js and of the      *)
(* tool adapters and the tool registry of tools.js.                        *)
(*                                                                         *)
(* Text is modelled as a sequence of text tokens (<<"4", "\n">> is the     *)
(* text "4\n"); the tokens "," " " "\n" and "'" are single characters,    *)
(* "<backtick>" stands for the backquote character.                        *)
(* JavaScript values whose type varies at run time are tagged records.     *)
(***************************************************************************)
EXTENDS Integers, Sequences, FiniteSets, TLC

VARIABLES argv, pc, messages, tools, requests, replies, toolLog,
          finalAnswer, fatal

vars == <<argv, pc, messages, tools, requests, replies, toolLog,
          finalAnswer, fatal>>

(***************************************************************************)
(* Bounds                                                                  *)
(***************************************************************************)
MaxCalls == 3       \* endpoint calls in one run
MaxOptLen == 3      \* tokens in an enumerated value of the -t option
MaxExprLen == 3     \* tokens in an enumerated calculator expression

(***************************************************************************)
(* JavaScript values                                                       *)
(***************************************************************************)
Undefined == [t |-> "undefined"]
Null == [t |-> "null"]
Str(s) == [t |-> "string", v |-> s]
Num(n) == [t |-> "number", v |-> n]
Arr(a) == [t |-> "array", v |-> a]
Obj(o) == [t |-> "object", v |-> o]
Err(m) == [t |-> "Error", message |-> m]

\* ToBoolean: what `if (x)`, `!x`, `x || y` and filter(Boolean) test
Truthy(x) ==
  CASE x.t = "undefined" -> FALSE
    [] x.t = "null" -> FALSE
    [] x.t = "string" -> x.v # <<>>
    [] x.t = "number" -> x.v # 0
    [] OTHER -> TRUE

\* String(x) and `${x}` for the values the loop can hold
ToStr(x) ==
  CASE x.t = "undefined" -> <<"undefined">>
    [] x.t = "null" -> <<"null">>
    [] x.t = "string" -> x.v
    [] x.t = "number" -> <<ToString(x.v)>>
    [] x.t = "Error" -> <<"Error: ">> \o x.message
    [] OTHER -> <<"[object]">>

\* x.prop for a property read on a value that is not null or undefined
Prop(x, p) ==
  CASE x.t = "object" -> IF p \in DOMAIN x.v THEN x.v[p] ELSE Undefined
    [] x.t = "Error" -> IF p = "message" THEN Str(x.message) ELSE Undefined
    [] OTHER -> Undefined

Nullish(x) == x.t \in {"undefined", "null"}

\* String.prototype.trim
Whitespace == {" ", "\n"}

RECURSIVE TrimStart(_)
TrimStart(s) ==
  IF s # <<>> /\ Head(s) \in Whitespace THEN TrimStart(Tail(s)) ELSE s

RECURSIVE TrimEnd(_)
TrimEnd(s) ==
  IF s # <<>> /\ s[Len(s)] \in Whitespace
  THEN TrimEnd(SubSeq(s, 1, Len(s) - 1)) ELSE s

Trim(s) == TrimEnd(TrimStart(s))

\* String.prototype.split(',')
RECURSIVE SplitFrom(_, _, _)
SplitFrom(s, i, cur) ==
  IF i > Len(s) THEN <<cur>>
  ELSE IF s[i] = "," THEN <<cur>> \o SplitFrom(s, i + 1, <<>>)
  ELSE SplitFrom(s, i + 1, Append(cur, s[i]))

SplitComma(s) == SplitFrom(s, 1, <<>>)

\* s contains t as a contiguous piece of text
Contains(s, t) ==
  \E i \in 1..(Len(s) - Len(t) + 1) : SubSeq(s, i, i + Len(t) - 1) = t

Last(s) == s[Len(s)]

(***************************************************************************)
(* tools.js: the registry                                                  *)
(***************************************************************************)
toolDefinitions ==
  << [type |-> "function",
      function |-> [name |-> "get_current_weather",
                    parameters |-> [type |-> "object",
                                    properties |-> {"latitude", "longitude"},
                                    required |-> <<"latitude", "longitude">>]]],
     [type |-> "function",
      function |-> [name |-> "get_current_datetime",
                    parameters |-> <<>>]],
     [type |-> "function",
      function |-> [name |-> "calculator",
                    parameters |-> [type |-> "object",
                                    properties |-> {"expression"},
                                    required |-> <<"expression">>]]] >>

RegistryNames == {toolDefinitions[i].function.name : i \in DOMAIN toolDefinitions}

(***************************************************************************)
(* index.js: choice of the advertised tools and the endpoint payload       *)
(***************************************************************************)
IsNonEmpty(s) == Truthy(Str(s))

Includes(seq, x) == \E i \in DOMAIN seq : seq[i] = x

\* argv.tools.split(',').map(s => s.trim()).filter(Boolean)
RequestedTools(s) ==
  LET parts == SplitComma(s)
  IN SelectSeq([i \in DOMAIN parts |-> Trim(parts[i])], IsNonEmpty)

RECURSIVE FilterInRequestOrder(_)
FilterInRequestOrder(requestedTools) ==
  IF requestedTools = <<>> THEN <<>>
  ELSE LET Named(td) == <<td.function.name>> = Head(requestedTools)
       IN SelectSeq(toolDefinitions, Named)
          \o FilterInRequestOrder(Tail(requestedTools))

\* toolDefinitions.filter(td => requestedTools.includes(td.function.name))
FilterDefinitions(requestedTools) ==
  LET Requested(td) == Includes(requestedTools, <<td.function.name>>)
  IN SelectSeq(toolDefinitions, Requested)

DetermineToolsDefaultAll(a) ==
  IF Truthy(a.tools)
  THEN Arr(FilterDefinitions(RequestedTools(a.tools.v)))
  ELSE Arr(toolDefinitions)

\* the value of `tools` in main
DetermineTools(a) ==
  IF Truthy(a.tools)
  THEN Arr(FilterDefinitions(RequestedTools(a.tools.v)))
  ELSE Undefined

\* the payload callLLM serialises and sends
Payload(model, msgs, tls) ==
  LET payload == [model |-> model, messages |-> msgs, stream |-> FALSE,
                  options |-> [temperature |-> 0]]
  IN IF Truthy(tls) THEN [tools |-> tls] @@ payload ELSE payload

(***************************************************************************)
(* tools.js: the adapters.  Each run yields the set of ways the call can   *)
(* end: how its promise settles and the side effects it started.           *)
(***************************************************************************)
Resolve(v, eff) == [kind |-> "resolve", value |-> v, effect |-> eff]
Reject(r, eff) == [kind |-> "reject", value |-> r, effect |-> eff]

\* a || b
Or(a, b) == IF Truthy(a) THEN a ELSE b

ExecCallbackNoTrim(r, eff) ==
  IF Truthy(r.error)
  THEN Reject(Or(Str(r.stderr), Prop(r.error, "message")), eff)
  ELSE Resolve(Str(r.stdout), eff)

\* the callback of exec: (error, stdout, stderr) => ...
ExecCallback(r, eff) ==
  IF Truthy(r.error)
  THEN Reject(Or(Str(r.stderr), Prop(r.error, "message")), eff)
  ELSE Resolve(Str(Trim(r.stdout)), eff)

RECURSIVE EscapeBackslashOnly(_)
EscapeBackslashOnly(s) ==
  IF s = <<>> THEN <<>>
  ELSE (IF Head(s) = "'" THEN <<"\\", "'">> ELSE <<Head(s)>>)
       \o EscapeBackslashOnly(Tail(s))

\* expression.replace(/'/g, "'\\''")
RECURSIVE EscapeQuotes(_)
EscapeQuotes(s) ==
  IF s = <<>> THEN <<>>
  ELSE (IF Head(s) = "'" THEN <<"'", "\\", "'", "'">> ELSE <<Head(s)>>)
       \o EscapeQuotes(Tail(s))

\* `bc -l -e '${safeExpr}'`
BcCommand(expression) ==
  <<"bc", " ", "-l", " ", "-e", " ", "'">> \o EscapeQuotes(expression) \o <<"'">>

\* How /bin/sh, which exec hands the command line to, reads it: the
\* commands it finds, each a sequence of words, whether it met a command
\* substitution or expansion, and whether a quote was left open.
CommandSeparators == {";", "\n", "&", "|"}

ShellStart ==
  [quoted |-> FALSE, esc |-> FALSE, on |-> FALSE, text |-> <<>>,
   words |-> <<>>, commands |-> <<>>, substitution |-> FALSE]

ShellEndWord(st) ==
  IF st.on
  THEN [st EXCEPT !.on = FALSE, !.text = <<>>, !.words = Append(@, st.text)]
  ELSE st

ShellEndCommand(st) ==
  LET w == ShellEndWord(st)
  IN IF w.words # <<>>
     THEN [w EXCEPT !.words = <<>>, !.commands = Append(@, w.words)]
     ELSE w

ShellLiteral(st, c) == [st EXCEPT !.on = TRUE, !.text = Append(@, c)]

ShellStep(st, c) ==
  IF st.esc
  THEN IF c = "\n" THEN [st EXCEPT !.esc = FALSE]
       ELSE ShellLiteral([st EXCEPT !.esc = FALSE], c)
  ELSE IF st.quoted
  THEN IF c = "'" THEN [st EXCEPT !.quoted = FALSE] ELSE ShellLiteral(st, c)
  ELSE CASE c = "'" -> [st EXCEPT !.quoted = TRUE, !.on = TRUE]
         [] c = "\\" -> [st EXCEPT !.esc = TRUE]
         [] c = " " -> ShellEndWord(st)
         [] c \in CommandSeparators -> ShellEndCommand(st)
         [] c \in {"<backtick>", "$"} -> [st EXCEPT !.substitution = TRUE, !.on = TRUE]
         [] OTHER -> ShellLiteral(st, c)

RECURSIVE ShellScan(_, _)
ShellScan(cmd, st) ==
  IF cmd = <<>> THEN st ELSE ShellScan(Tail(cmd), ShellStep(st, Head(cmd)))

ShellParse(cmd) ==
  LET st == ShellScan(cmd, ShellStart)
  IN [commands |-> ShellEndCommand(st).commands,
      substitution |-> st.substitution,
      unterminated |-> st.quoted \/ st.esc]

ExecFailure(cmd, stderr) ==
  [error |-> Err(<<"Command failed: ">> \o cmd \o stderr),
   stdout |-> <<>>, stderr |-> stderr]

\* what the shell can hand back for a bc command line
BcExec(cmd) ==
  (IF cmd = BcCommand(<<"2+2">>)
   THEN {[error |-> Null, stdout |-> <<"4", "\n">>, stderr |-> <<>>]}
   ELSE {ExecFailure(cmd, <<"Parse error: bad expression", "\n">>)})
  \cup {ExecFailure(cmd, <<>>)}

CalculatorRun(args) ==
  IF Nullish(args)
  THEN {Reject(Err(<<"Cannot destructure property 'expression'">>), <<>>)}
  ELSE LET expression == Prop(args, "expression")
       IN IF expression.t # "string"
          THEN {Reject(Err(<<"Cannot read properties of undefined (reading 'replace')">>), <<>>)}
          ELSE LET cmd == BcCommand(expression.v)
               IN {ExecCallback(r, <<[op |-> "exec", arg |-> cmd]>>) :
                     r \in BcExec(cmd)}

\* what the shell can hand back for `date`
DateExec ==
  {[error |-> Null, stdout |-> <<"Sat  3 May 2025 19:33:34 BST", "\n">>,
    stderr |-> <<>>],
   ExecFailure(<<"date">>, <<"/bin/sh: date: command not found", "\n">>)}

GetCurrentDateTimeRun ==
  {ExecCallback(r, <<[op |-> "exec", arg |-> <<"date">>]>>) : r \in DateExec}

weatherCodeMap ==
  [c \in {0, 1, 2, 3, 45, 48, 51, 53, 55, 56, 57, 61, 63, 65, 66, 67, 71, 73,
          75, 77, 80, 81, 82, 85, 86, 95, 96, 99} |->
     CASE c = 0 -> "Clear" [] c = 1 -> "Mostly Clear"
       [] c = 2 -> "Partly Cloudy" [] c = 3 -> "Cloudy" [] c = 45 -> "Fog"
       [] c = 48 -> "Freezing Fog" [] c = 51 -> "Light Drizzle"
       [] c = 53 -> "Drizzle" [] c = 55 -> "Heavy Drizzle"
       [] c = 56 -> "Light Freezing Drizzle" [] c = 57 -> "Freezing Drizzle"
       [] c = 61 -> "Light Rain" [] c = 63 -> "Rain" [] c = 65 -> "Heavy Rain"
       [] c = 66 -> "Light Freezing Rain" [] c = 67 -> "Freezing Rain"
       [] c = 71 -> "Light Snow" [] c = 73 -> "Snow" [] c = 75 -> "Heavy Snow"
       [] c = 77 -> "Snow Grains" [] c = 80 -> "Light Rain Shower"
       [] c = 81 -> "Rain Shower" [] c = 82 -> "Heavy Rain Shower"
       [] c = 85 -> "Snow Shower" [] c = 86 -> "Heavy Snow Shower"
       [] c = 95 -> "Thunderstorm" [] c = 96 -> "Thunderstorm with Hail"
       [] OTHER -> "Heavy Thunderstorm with Hail"]

WeatherUrl(latitude, longitude) ==
  <<"https://api.open-meteo.com/v1/forecast?", "latitude=">> \o ToStr(latitude)
  \o <<"&", "longitude=">> \o ToStr(longitude) \o <<"&", "current=...">>

\* how getJSON(url) can settle: a network error, a body that is not JSON,
\* or the parsed body
GetJSON(url) ==
  {[kind |-> "reject", value |-> Err(<<"getaddrinfo ENOTFOUND api.open-meteo.com">>)],
   [kind |-> "reject", value |-> Err(<<"Failed to parse JSON response">>)],
   [kind |-> "resolve", value |-> Null],
   [kind |-> "resolve", value |-> Obj([error |-> TRUE])],
   [kind |-> "resolve",
    value |-> Obj([timezone_abbreviation |-> Str(<<"GMT">>),
                   current |-> Obj([time |-> Str(<<"2025-05-03T19:30">>),
                                    weather_code |-> Num(0)])])],
   [kind |-> "resolve",
    value |-> Obj([timezone_abbreviation |-> Str(<<"GMT">>),
                   current |-> Obj([time |-> Str(<<"2025-05-03T19:30">>),
                                    weather_code |-> Num(4)])])]}

WeatherSummary(latitude, longitude, weatherData) ==
  LET curr == Prop(weatherData, "current")
      code == Prop(curr, "weather_code")
      weatherDesc == IF code.t = "number" /\ code.v \in DOMAIN weatherCodeMap
                     THEN <<weatherCodeMap[code.v]>>
                     ELSE <<"Unknown (">> \o ToStr(code) \o <<")">>
  IN <<"Weather for (lat: ">> \o ToStr(latitude) \o <<", lon: ">>
     \o ToStr(longitude) \o <<"):", "\n", "- Time: ">>
     \o ToStr(Prop(curr, "time")) \o <<" (">>
     \o ToStr(Prop(weatherData, "timezone_abbreviation")) \o <<")", "\n">>
     \o <<"- Weather: ">> \o weatherDesc

GetCurrentWeatherRun(args) ==
  IF Nullish(args)
  THEN {Reject(Err(<<"Cannot destructure property 'latitude'">>), <<>>)}
  ELSE LET latitude == Prop(args, "latitude")
           longitude == Prop(args, "longitude")
           url == WeatherUrl(latitude, longitude)
           eff == <<[op |-> "https.get", arg |-> url]>>
       IN IF ~Truthy(latitude) \/ ~Truthy(longitude)
          THEN {Resolve(Str(<<"Error: latitude and longitude are required.">>), <<>>)}
          ELSE {IF g.kind = "reject"
                THEN Resolve(Str(<<"Error: Failed to fetch weather data.">>), eff)
                ELSE IF ~Truthy(g.value) \/ ~Truthy(Prop(g.value, "current"))
                THEN Resolve(Str(<<"Error: No weather data available.">>), eff)
                ELSE Resolve(Str(WeatherSummary(latitude, longitude, g.value)), eff)
                  : g \in GetJSON(url)}

(***************************************************************************)
(* index.js: executeToolCall                                               *)
(***************************************************************************)
executeToolCallThrowsText(toolCall) ==
  LET name == toolCall.function.name
      args == toolCall.function.arguments
  IN CASE name = "calculator" -> CalculatorRun(args)
       [] name = "get_current_weather" -> GetCurrentWeatherRun(args)
       [] name = "get_current_datetime" -> GetCurrentDateTimeRun
       [] OTHER -> {Reject(Str(<<"Unknown tool: ", name>>), <<>>)}

executeToolCall(toolCall) ==
  LET name == toolCall.function.name
      args == toolCall.function.arguments
  IN CASE name = "calculator" -> CalculatorRun(args)
       [] name = "get_current_weather" -> GetCurrentWeatherRun(args)
       [] name = "get_current_datetime" -> GetCurrentDateTimeRun
       [] OTHER -> {Reject(Err(<<"Unknown tool: ", name>>), <<>>)}

(***************************************************************************)
(* The environment: what the model may request and how an endpoint call    *)
(* can end                                                                 *)
(***************************************************************************)
ToolCall(name, args) == [function |-> [name |-> name, arguments |-> args]]

CalcCall == ToolCall("calculator", Obj([expression |-> Str(<<"2+2">>)]))
DateCall == ToolCall("get_current_datetime", Obj(<<>>))

ToolCalls ==
  {CalcCall,
   ToolCall("calculator", Obj([expression |-> Str(<<"2+">>)])),
   ToolCall("calculator", Obj(<<>>)),
   ToolCall("get_current_weather", Obj([latitude |-> Num(0), longitude |-> Num(0)])),
   ToolCall("get_current_weather", Obj([latitude |-> Num(41), longitude |-> Num(12)])),
   ToolCall("get_current_weather", Undefined),
   ToolCall("get_current_weather", Obj([latitude |-> Num(41)])),
   DateCall,
   ToolCall("web_search", Obj(<<>>))}

ToolCallLists ==
  {<<tc>> : tc \in ToolCalls}
  \cup {<<CalcCall, DateCall>>, <<ToolCall("web_search", Obj(<<>>)), CalcCall>>}

\* the `message` of a well-formed response
AssistantMsgs ==
  {Obj([role |-> Str(<<"assistant">>), content |-> Str(<<"42">>)]),
   Obj([role |-> Str(<<"assistant">>), content |-> Str(<<"42">>),
        tool_calls |-> Arr(<<>>)]),
   Obj([role |-> Str(<<"assistant">>)])}
  \cup {Obj([role |-> Str(<<"assistant">>), content |-> Str(<<>>),
             tool_calls |-> Arr(l)]) : l \in ToolCallLists}

JsonBody(v) == [kind |-> "end", json |-> TRUE, value |-> v]

\* the ways one http.request can end: an 'error' event, or 'end' with a body
\* that is not JSON, that is JSON without a message, or that is a response
EndpointOutcomes ==
  {[kind |-> "error", value |-> Err(<<"connect ECONNREFUSED 127.0.0.1:11434">>)],
   [kind |-> "end", json |-> FALSE, value |-> Str(<<"<html>502</html>">>)],
   JsonBody(Obj([error |-> Str(<<"model not found">>)]))}
  \cup {JsonBody(Obj([message |-> m])) : m \in AssistantMsgs}

\* the endpoint of a run that only looks at the advertised tools
FewOutcomes ==
  {[kind |-> "error", value |-> Err(<<"connect ECONNREFUSED 127.0.0.1:11434">>)],
   JsonBody(Obj([message |-> Obj([content |-> Str(<<"42">>)])])),
   JsonBody(Obj([message |-> Obj([content |-> Str(<<>>),
                                    tool_calls |-> Arr(<<DateCall>>)])]))}

\* the endpoint of a run that looks at the calculator's command line: the
\* first reply asks for the calculator on an arbitrary expression
ExprTokens == {"1", ";", "'", "\\", "<backtick>", "$", "\n", " "}

Expressions ==
  UNION {[1..k -> ExprTokens] : k \in 0..MaxExprLen}
  \cup {<<"2+2">>, <<"1", ";", " ", "rm", " ", "-rf", " ", "/">>}

CalculatorReplies ==
  {JsonBody(Obj([message |->
      Obj([content |-> Str(<<>>),
           tool_calls |-> Arr(<<ToolCall("calculator",
                                  Obj([expression |-> Str(e)]))>>)])])) :
     e \in Expressions}

\* how the promise of callLLM settles
callLLM(o) ==
  IF o.kind = "error" THEN [kind |-> "reject", value |-> o.value]
  ELSE IF o.json THEN [kind |-> "resolve", value |-> o.value]
  ELSE [kind |-> "reject",
        value |-> Err(<<"Failed to parse response: ">> \o o.value.v)]

(***************************************************************************)
(* index.js: main                                                          *)
(***************************************************************************)
Prompt == Str(<<"what is 2+2?">>)

OptTokens == {",", " ", "calculator", "get_current_weather",
              "get_current_datetime", "getCurrentWeather"}

\* every text of at most n tokens
TextsUpTo(n) == UNION {[1..k -> OptTokens] : k \in 0..n}

\* the -t values the README shows
ReadmeOpts ==
  {<<"calculator">>,
   <<"calculator", ",", "getCurrentWeather">>,
   <<"calculator", ",", "getCurrentWeather", ",", "getCurrentDateTime">>,
   <<"getCurrentWeather">>}

LoopOpts ==
  {Undefined, Str(<<"calculator">>), Str(<<"getCurrentWeather">>),
   Str(<<"get_current_datetime", ",", " ", "calculator">>)}

\* -t values naming all the registry tools against the registry order
OrderOpts ==
  {<<"calculator", ",", "get_current_datetime", ",", "get_current_weather">>,
   <<" ", "calculator", " ", ",", "get_current_weather", ",", "calculator">>}

AllOpts ==
  {Undefined}
  \cup {Str(s) : s \in TextsUpTo(MaxOptLen) \cup ReadmeOpts \cup OrderOpts}

InitWith(opts) ==
  /\ argv \in {[prompt |-> Prompt, model |-> "qwen3:4b", tools |-> o] : o \in opts}
  /\ pc = "start"
  /\ messages = <<[role |-> "user", content |-> Prompt]>>
  /\ tools = Undefined
  /\ requests = <<>>
  /\ replies = <<>>
  /\ toolLog = <<>>
  /\ finalAnswer = Undefined
  /\ fatal = Undefined

Init == InitWith(LoopOpts)

InitCLI == InitWith(AllOpts)

\* main up to its first await: choose the tools, send the first request
Start ==
  /\ pc = "start"
  /\ tools' = DetermineTools(argv)
  /\ requests' = Append(requests, Payload(argv.model, messages, tools'))
  /\ pc' = "awaiting"
  /\ UNCHANGED <<argv, messages, replies, toolLog, finalAnswer, fatal>>

HasToolCalls(m) ==
  /\ Truthy(Prop(m, "tool_calls"))
  /\ Len(Prop(m, "tool_calls").v) > 0

AssistantMessageNoCalls(m) ==
  [role |-> "assistant",
   content |-> Or(Prop(m, "content"), Str(<<>>)),
   tool_calls |-> Undefined]

AssistantMessage(m) ==
  [role |-> "assistant",
   content |-> Or(Prop(m, "content"), Str(<<>>)),
   tool_calls |-> Prop(m, "tool_calls")]

LastToolCall(m) == Last(Prop(m, "tool_calls").v)

\* only the first tool call is handled: assistantMsg.tool_calls[0]
FirstToolCall(m) == Prop(m, "tool_calls").v[1]

FirstMessageContent(msgs) == msgs[1].content

\* what is printed after the loop: the content of the last message
FinalAssistantResponse(msgs) == Last(msgs).content

\* the endpoint call fails, or its response has no message: the error
\* leaves main and the top-level catch exits the process
EndpointFails(outcomes) ==
  /\ pc = "awaiting"
  /\ \E o \in outcomes :
       LET r == callLLM(o)
       IN /\ \/ /\ r.kind = "reject"
                /\ fatal' = r.value
             \/ /\ r.kind = "resolve"
                /\ Nullish(Prop(r.value, "message"))
                /\ fatal' = Err(<<"Cannot read properties of undefined (reading 'content')">>)
          /\ replies' = Append(replies, o)
  /\ pc' = "aborted"
  /\ UNCHANGED <<argv, messages, tools, requests, toolLog, finalAnswer>>

\* the loop with a ceiling of two iterations
ReplyWithToolCallsCapped(outcomes) ==
  /\ pc = "awaiting"
  /\ Len(requests) < MaxCalls
  /\ \E o \in outcomes :
       LET r == callLLM(o)
       IN /\ r.kind = "resolve"
          /\ ~Nullish(Prop(r.value, "message"))
          /\ LET assistantMsg == Prop(r.value, "message")
                 toolCall == FirstToolCall(assistantMsg)
             IN /\ HasToolCalls(assistantMsg)
                /\ messages' = Append(messages, AssistantMessage(assistantMsg))
                /\ IF Len(requests) < 2
                   THEN /\ \E out \in executeToolCall(toolCall) :
                             toolLog' = Append(toolLog,
                                          [msg |-> Len(messages) + 1, index |-> 1,
                                           call |-> toolCall, outcome |-> out,
                                           settled |-> FALSE])
                        /\ pc' = "handling"
                        /\ UNCHANGED finalAnswer
                   ELSE /\ finalAnswer' = FinalAssistantResponse(messages')
                        /\ pc' = "done"
                        /\ UNCHANGED toolLog
          /\ replies' = Append(replies, o)
  /\ UNCHANGED <<argv, tools, requests, fatal>>

\* the response requests tools: push the assistant message and start
\* executeToolCall on the first tool call
ReplyWithToolCalls(outcomes) ==
  /\ pc = "awaiting"
  /\ Len(requests) < MaxCalls
  /\ \E o \in outcomes :
       LET r == callLLM(o)
       IN /\ r.kind = "resolve"
          /\ ~Nullish(Prop(r.value, "message"))
          /\ LET assistantMsg == Prop(r.value, "message")
                 toolCall == FirstToolCall(assistantMsg)
             IN /\ HasToolCalls(assistantMsg)
                /\ messages' = Append(messages, AssistantMessage(assistantMsg))
                /\ \E out \in executeToolCall(toolCall) :
                     toolLog' = Append(toolLog,
                                  [msg |-> Len(messages) + 1, index |-> 1,
                                   call |-> toolCall, outcome |-> out,
                                   settled |-> FALSE])
          /\ replies' = Append(replies, o)
  /\ pc' = "handling"
  /\ UNCHANGED <<argv, tools, requests, finalAnswer, fatal>>

\* the response requests no tool: push the assistant message, leave the
\* loop and print the last message
ReplyFinal(outcomes) ==
  /\ pc = "awaiting"
  /\ \E o \in outcomes :
       LET r == callLLM(o)
       IN /\ r.kind = "resolve"
          /\ ~Nullish(Prop(r.value, "message"))
          /\ LET assistantMsg == Prop(r.value, "message")
             IN /\ ~HasToolCalls(assistantMsg)
                /\ messages' = Append(messages, AssistantMessage(assistantMsg))
          /\ replies' = Append(replies, o)
  /\ finalAnswer' = FinalAssistantResponse(messages')
  /\ pc' = "done"
  /\ UNCHANGED <<argv, tools, requests, toolLog, fatal>>

Pending == Last(toolLog)

Settle == [toolLog EXCEPT ![Len(toolLog)].settled = TRUE]

ToolResolvesAsAssistant ==
  /\ pc = "handling"
  /\ Pending.outcome.kind = "resolve"
  /\ LET toolResult == Pending.outcome.value
     IN messages' = Append(messages,
                      [role |-> "assistant", content |-> Str(ToStr(toolResult)),
                       tool_calls |-> Undefined])
  /\ toolLog' = Settle
  /\ requests' = Append(requests, Payload(argv.model, messages', tools))
  /\ pc' = "awaiting"
  /\ UNCHANGED <<argv, tools, replies, finalAnswer, fatal>>

ToolResolvesReplacing ==
  /\ pc = "handling"
  /\ Pending.outcome.kind = "resolve"
  /\ LET toolResult == Pending.outcome.value
     IN messages' = [messages EXCEPT ![Len(messages)] =
                      [role |-> "tool", content |-> Str(ToStr(toolResult))]]
  /\ toolLog' = Settle
  /\ requests' = Append(requests, Payload(argv.model, messages', tools))
  /\ pc' = "awaiting"
  /\ UNCHANGED <<argv, tools, replies, finalAnswer, fatal>>

ToolResolvesUnsetTools ==
  /\ pc = "handling"
  /\ Pending.outcome.kind = "resolve"
  /\ LET toolResult == Pending.outcome.value
     IN messages' = Append(messages,
                      [role |-> "tool", content |-> Str(ToStr(toolResult))])
  /\ toolLog' = Settle
  /\ tools' = Undefined
  /\ requests' = Append(requests, Payload(argv.model, messages', tools'))
  /\ pc' = "awaiting"
  /\ UNCHANGED <<argv, replies, finalAnswer, fatal>>

\* the tool's promise resolves: push the result and call the endpoint again
ToolResolves ==
  /\ pc = "handling"
  /\ Pending.outcome.kind = "resolve"
  /\ LET toolResult == Pending.outcome.value
     IN messages' = Append(messages,
                      [role |-> "tool", content |-> Str(ToStr(toolResult))])
  /\ toolLog' = Settle
  /\ requests' = Append(requests, Payload(argv.model, messages', tools))
  /\ pc' = "awaiting"
  /\ UNCHANGED <<argv, tools, replies, finalAnswer, fatal>>

ToolRejectsSilent ==
  /\ pc = "handling"
  /\ Pending.outcome.kind = "reject"
  /\ toolLog' = Settle
  /\ requests' = Append(requests, Payload(argv.model, messages, tools))
  /\ pc' = "awaiting"
  /\ UNCHANGED <<argv, messages, tools, replies, finalAnswer, fatal>>

ToolRejectsFatal ==
  /\ pc = "handling"
  /\ Pending.outcome.kind = "reject"
  /\ fatal' = Pending.outcome.value
  /\ toolLog' = Settle
  /\ pc' = "aborted"
  /\ UNCHANGED <<argv, messages, tools, requests, replies, finalAnswer>>

\* the tool's promise rejects: push the error and call the endpoint again
ToolRejects ==
  /\ pc = "handling"
  /\ Pending.outcome.kind = "reject"
  /\ LET err == Pending.outcome.value
     IN messages' = Append(messages,
                      [role |-> "tool",
                       content |-> Str(<<"Error: ">> \o ToStr(Prop(err, "message")))])
  /\ toolLog' = Settle
  /\ requests' = Append(requests, Payload(argv.model, messages', tools))
  /\ pc' = "awaiting"
  /\ UNCHANGED <<argv, tools, replies, finalAnswer, fatal>>

Next ==
  \/ Start
  \/ EndpointFails(EndpointOutcomes)
  \/ ReplyWithToolCalls(EndpointOutcomes)
  \/ ReplyFinal(EndpointOutcomes)
  \/ ToolResolves
  \/ ToolRejects

Spec == Init /\ [][Next]_vars

NextCLI ==
  \/ Start
  \/ EndpointFails(FewOutcomes)
  \/ ReplyWithToolCalls(FewOutcomes)
  \/ ReplyFinal(FewOutcomes)
  \/ ToolResolves
  \/ ToolRejects

SpecCLI == InitCLI /\ [][NextCLI]_vars

(***************************************************************************)
(* Properties of the conversation loop                                     *)
(***************************************************************************)
ToolCallsOf(msg) ==
  IF msg.role = "assistant" /\ Truthy(msg.tool_calls) THEN msg.tool_calls.v
  ELSE <<>>

LogEntriesFor(i) == {k \in DOMAIN toolLog : toolLog[k].msg = i}

ToolMessages == {i \in DOMAIN messages : messages[i].role = "tool"}

\* C1: every tool message immediately follows an assistant message that
\* issued at least one tool call and answers exactly one of that message's
\* tool calls; it never follows a user message, a tool message or an
\* assistant message without tool calls.
ToolMessageFollowsItsCall ==
  \A i \in ToolMessages :
    /\ i > 1
    /\ messages[i - 1].role = "assistant"
    /\ Len(ToolCallsOf(messages[i - 1])) >= 1
    /\ Cardinality(LogEntriesFor(i - 1)) = 1
    /\ \A k \in LogEntriesFor(i - 1) :
         /\ toolLog[k].settled
         /\ toolLog[k].index \in DOMAIN ToolCallsOf(messages[i - 1])
         /\ toolLog[k].call = ToolCallsOf(messages[i - 1])[toolLog[k].index]

ToolMessageAfterCalls ==
  \E i \in ToolMessages : i > 1 /\ Len(ToolCallsOf(messages[i - 1])) = 2

\* the diagnostic text of a failure: the message of an Error, or the text
\* of a rejection that is a plain string (stderr)
Diagnostic(v) == IF v.t = "Error" THEN v.message ELSE ToStr(v)

IsPrefix(p, s) == Len(p) <= Len(s) /\ SubSeq(s, 1, Len(p)) = p

\* C2: every tool failure, whichever adapter failed and however, is fed
\* back: the run is not aborted, exactly one tool message is appended, its
\* content starts with the error prefix and contains the failure's
\* diagnostic text, and the next endpoint call is issued with it.
ToolFailureFedBack ==
  \A k \in DOMAIN toolLog :
    (toolLog[k].settled /\ toolLog[k].outcome.kind = "reject") =>
      LET i == toolLog[k].msg + 1
      IN /\ i \in ToolMessages
         /\ IsPrefix(<<"Error: ">>, messages[i].content.v)
         /\ Contains(messages[i].content.v, Diagnostic(toolLog[k].outcome.value))
         /\ Len(requests) >= k + 1
         /\ requests[k + 1].messages = SubSeq(messages, 1, i)

\* C3: for every reply with n >= 1 tool calls executeToolCall is started
\* exactly once, on tool_calls[0], and exactly one tool message is appended
\* before the next endpoint call; a reply without tool calls starts none;
\* every iteration makes one endpoint call and at most one tool invocation.
OneToolCallPerTurn ==
  /\ \A i \in DOMAIN messages :
       messages[i].role = "assistant" =>
         /\ Cardinality(LogEntriesFor(i)) =
              (IF Len(ToolCallsOf(messages[i])) >= 1 THEN 1 ELSE 0)
         /\ \A k \in LogEntriesFor(i) :
              /\ toolLog[k].index = 1
              /\ toolLog[k].call = ToolCallsOf(messages[i])[1]
              /\ toolLog[k].outcome \in executeToolCall(ToolCallsOf(messages[i])[1])
              /\ Len(toolLog[k].outcome.effect) <= 1
  /\ \A k \in DOMAIN toolLog : messages[toolLog[k].msg].role = "assistant"
  /\ Len(toolLog) <= Len(replies)
  /\ Len(replies) <= Len(requests)
  /\ Len(requests) <= Len(replies) + 1
  /\ \A j \in 1..(Len(requests) - 1) :
       /\ Len(requests[j + 1].messages) = Len(requests[j].messages) + 2
       /\ Last(requests[j + 1].messages).role = "tool"
       /\ requests[j + 1].messages[Len(requests[j].messages) + 1].role = "assistant"

SecondCallNeverRun ==
  /\ Len(requests) >= 2
  /\ Len(ToolCallsOf(messages[2])) = 2
  /\ toolLog[1].settled

\* the endpoint call could not be completed: no response, or a body that
\* is not a response with a message
Failed(o) ==
  \/ callLLM(o).kind = "reject"
  \/ Nullish(Prop(callLLM(o).value, "message"))

ReplyMessage(o) == Prop(callLLM(o).value, "message")

RequestsTools(o) == ~Failed(o) /\ HasToolCalls(ReplyMessage(o))

\* a response whose message has no tool calls (absent or empty)
PlainReply(o) == ~Failed(o) /\ ~HasToolCalls(ReplyMessage(o))

\* C4: the loop is DONE exactly when the last endpoint reply is the first
\* one without tool calls; nothing is called after it; the surfaced answer
\* is the content of that reply (empty text when it has none), held by the
\* last transcript entry, an assistant message; a run without any tool
\* request makes exactly one endpoint call.
DoneAtFirstPlainReply ==
  /\ pc = "done" <=> (replies # <<>> /\ PlainReply(Last(replies)))
  /\ \A j \in 1..(Len(replies) - 1) : RequestsTools(replies[j])
  /\ pc # "done" => finalAnswer = Undefined
  /\ pc = "done" =>
       /\ Len(requests) = Len(replies)
       /\ \A k \in DOMAIN toolLog : toolLog[k].settled
       /\ Last(messages).role = "assistant"
       /\ finalAnswer = Last(messages).content
       /\ LET content == Prop(ReplyMessage(Last(replies)), "content")
          IN finalAnswer = IF content.t = "string" THEN content ELSE Str(<<>>)
       /\ toolLog = <<>> => (Len(requests) = 1 /\ Len(messages) = 2)

DoneAfterToolUse ==
  /\ pc = "done"
  /\ Len(replies) = 2
  /\ finalAnswer = Str(<<"42">>)

\* C5: a tool invocation that succeeds appends exactly one tool message
\* holding the adapter's result as text, and the next endpoint call sends
\* the transcript ending with that message; the calculator on "2+2", bc
\* printing "4" and a newline, feeds back "4".
ToolResultFedBack ==
  /\ \A k \in DOMAIN toolLog :
       (toolLog[k].settled /\ toolLog[k].outcome.kind = "resolve") =>
         LET i == toolLog[k].msg + 1
         IN /\ i \in ToolMessages
            /\ toolLog[k].outcome.value.t = "string"
            /\ messages[i].content = toolLog[k].outcome.value
            /\ Len(requests) >= k + 1
            /\ requests[k + 1].messages = SubSeq(messages, 1, i)
            /\ Last(requests[k + 1].messages) = messages[i]
            /\ (toolLog[k].call = CalcCall => messages[i].content = Str(<<"4">>))
  /\ Cardinality(ToolMessages) =
       Cardinality({k \in DOMAIN toolLog : toolLog[k].settled})

CalculatorResultSent ==
  /\ Len(requests) = 2
  /\ toolLog[1].call = CalcCall
  /\ toolLog[1].outcome.kind = "resolve"
  /\ Last(requests[2].messages) = [role |-> "tool", content |-> Str(<<"4">>)]

HasToolsField(req) == "tools" \in DOMAIN req

AdvertisedIn(req) ==
  IF HasToolsField(req) /\ req.tools.t = "array"
  THEN {req.tools.v[i].function.name : i \in DOMAIN req.tools.v}
  ELSE {}

\* C7: a request carries the `tools` field only if -t selected at least one
\* tool, and then the field is a non-empty list of registry descriptors; a
\* -t value that selects no tool never yields an empty `tools` list.
ToolsFieldOnlyWhenSelected ==
  \A j \in DOMAIN requests :
    HasToolsField(requests[j]) =>
      /\ requests[j].tools.t = "array"
      /\ Len(requests[j].tools.v) >= 1
      /\ \A i \in DOMAIN requests[j].tools.v :
           Includes(toolDefinitions, requests[j].tools.v[i])

\* C8: without the -t flag every request of the run, the first and the
\* later ones, has no `tools` field at all.
NoFlagOmitsTools ==
  argv.tools = Undefined =>
    \A j \in DOMAIN requests : ~HasToolsField(requests[j])

NoFlagSecondRequest ==
  /\ argv.tools = Undefined
  /\ Len(requests) >= 2
  /\ Len(replies) >= 2

\* C9: an adapter runs a shell command or an HTTP request only for a tool
\* that -t enabled and the requests advertise; without -t none ever runs.
AdaptersOnlyIfEnabled ==
  \A k \in DOMAIN toolLog :
    toolLog[k].outcome.effect # <<>> =>
      /\ argv.tools # Undefined
      /\ toolLog[k].call.function.name \in AdvertisedIn(requests[k])

\* C10: the -t values of the README advertise the tools they name: all
\* three for "calculator,getCurrentWeather,getCurrentDateTime", the weather
\* tool for getCurrentWeather, calculator and weather for
\* "calculator,getCurrentWeather".
ReadmeOptsAdvertised ==
  \A j \in DOMAIN requests :
    /\ argv.tools = Str(<<"calculator", ",", "getCurrentWeather", ",", "getCurrentDateTime">>)
         => AdvertisedIn(requests[j]) = RegistryNames
    /\ argv.tools = Str(<<"getCurrentWeather">>)
         => "get_current_weather" \in AdvertisedIn(requests[j])
    /\ argv.tools = Str(<<"calculator", ",", "getCurrentWeather">>)
         => {"calculator", "get_current_weather"} \subseteq AdvertisedIn(requests[j])

\* the name n is requested by the -t text s: one of its comma-separated
\* parts is n, possibly surrounded by whitespace
NameRequested(s, n) ==
  \E p \in DOMAIN s :
    /\ s[p] = n
    /\ \E a \in 0..(p - 1) :
         /\ a = 0 \/ s[a] = ","
         /\ \A q \in (a + 1)..(p - 1) : s[q] \in Whitespace
    /\ \E b \in (p + 1)..(Len(s) + 1) :
         /\ b = Len(s) + 1 \/ s[b] = ","
         /\ \A q \in (p + 1)..(b - 1) : s[q] \in Whitespace

AdvertisedList(req) == IF HasToolsField(req) THEN req.tools.v ELSE <<>>

\* C11: the advertised list is the registry filtered to the requested
\* names in registry order, whatever the order, whitespace or repetition
\* of the names in -t: each registry tool appears at most once, and iff
\* its name was requested; -t "calculator" advertises exactly the
\* calculator descriptor.
AdvertisedIsFilteredRegistry ==
  \A j \in DOMAIN requests :
    LET adv == AdvertisedList(requests[j])
        Wanted(td) == /\ argv.tools.t = "string"
                      /\ NameRequested(argv.tools.v, td.function.name)
    IN /\ adv = SelectSeq(toolDefinitions, Wanted)
       /\ \A a, b \in DOMAIN adv : a # b => adv[a] # adv[b]
       /\ argv.tools = Str(<<"calculator">>) =>
            (Len(adv) = 1 /\ adv[1].function.name = "calculator"
             /\ adv[1] = toolDefinitions[3])

AdvertisedAgainstRequestOrder ==
  /\ argv.tools = Str(<<" ", "calculator", " ", ",", "get_current_weather", ",", "calculator">>)
  /\ Len(requests) >= 2
  /\ AdvertisedList(requests[2]) = <<toolDefinitions[1], toolDefinitions[3]>>

UnknownCalls ==
  {k \in DOMAIN toolLog : toolLog[k].call.function.name \notin RegistryNames}

\* C12: a requested tool name that is not in the registry fails with an
\* unknown-tool error that does not end the run: no adapter runs, exactly
\* one tool message with the error naming the tool is appended, and the
\* next endpoint call is issued.
UnknownToolFedBack ==
  \A k \in UnknownCalls :
    /\ toolLog[k].outcome.kind = "reject"
    /\ toolLog[k].outcome.effect = <<>>
    /\ toolLog[k].settled =>
         LET i == toolLog[k].msg + 1
         IN /\ i \in ToolMessages
            /\ messages[i].content =
                 Str(<<"Error: ", "Unknown tool: ", toolLog[k].call.function.name>>)
            /\ Len(requests) >= k + 1
            /\ requests[k + 1].messages = SubSeq(messages, 1, i)
            /\ (i < Len(messages) => messages[i + 1].role = "assistant")

UnknownToolThenAnswer ==
  /\ pc = "done"
  /\ UnknownCalls # {}
  /\ Len(messages) = 4

WeatherCalls ==
  {k \in DOMAIN toolLog : toolLog[k].call.function.name = "get_current_weather"}

\* C13: GetCurrentWeather.run never rejects: whatever the arguments and
\* whatever the remote service does, it resolves with a text, an error
\* text when fields are missing, the request fails or the body is unusable.
WeatherFailsSoft ==
  \A k \in WeatherCalls :
    /\ toolLog[k].outcome.kind = "resolve"
    /\ toolLog[k].outcome.value.t = "string"

(***************************************************************************)
(* Properties of the transcript                                            *)
(***************************************************************************)
ToolsIn(msgs) == {i \in DOMAIN msgs : msgs[i].role = "tool"}

AssistantsWithCalls(msgs) ==
  {i \in DOMAIN msgs : Len(ToolCallsOf(msgs[i])) >= 1}

\* the assistant messages whose first tool call was handed to
\* executeToolCall and has settled
Dispatched ==
  {i \in AssistantsWithCalls(messages) :
     \E k \in LogEntriesFor(i) : toolLog[k].settled}

\* C14: in every transcript state the number of tool messages equals the
\* number of assistant messages with tool calls whose dispatch completed,
\* and each tool message follows such a message; in the transcripts sent
\* to the endpoint and in the final one that is every assistant message
\* with tool calls.
ToolCountMatchesDispatches ==
  /\ Cardinality(ToolsIn(messages)) = Cardinality(Dispatched)
  /\ \A i \in ToolsIn(messages) : i - 1 \in Dispatched
  /\ pc # "handling" =>
       Cardinality(ToolsIn(messages)) = Cardinality(AssistantsWithCalls(messages))
  /\ \A j \in DOMAIN requests :
       Cardinality(ToolsIn(requests[j].messages)) =
         Cardinality(AssistantsWithCalls(requests[j].messages))

DoneAfterFailedAndGoodTool ==
  /\ pc = "done"
  /\ Cardinality(ToolsIn(messages)) = 2
  /\ toolLog[1].outcome.kind = "reject"
  /\ toolLog[2].outcome.kind = "resolve"

\* C15: the transcript starts as the single user message and every step
\* leaves it unchanged or appends one message at its end; the transcript
\* of each endpoint call strictly extends that of the call before.
TranscriptAppendOnly ==
  /\ messages = <<[role |-> "user", content |-> argv.prompt]>>
  /\ [][/\ Len(messages') \in {Len(messages), Len(messages) + 1}
        /\ SubSeq(messages', 1, Len(messages)) = messages]_vars
  /\ [](\A j \in 1..(Len(requests) - 1) :
          /\ Len(requests[j + 1].messages) > Len(requests[j].messages)
          /\ SubSeq(requests[j + 1].messages, 1, Len(requests[j].messages))
               = requests[j].messages
          /\ SubSeq(messages, 1, Len(requests[j + 1].messages))
               = requests[j + 1].messages)

ThreeGrowingRequests ==
  /\ Len(requests) = 3
  /\ Len(requests[3].messages) = 5
  /\ pc = "done"

\* C16: the advertised tools are chosen once, before the first endpoint
\* call; no reply, tool success or tool failure changes them, and every
\* request carries the same `tools` value, or the same absence, as the
\* first one.
ToolsFixedForRun ==
  /\ [][pc # "start" => tools' = tools]_vars
  /\ [](\A j \in DOMAIN requests :
          /\ HasToolsField(requests[j]) <=> HasToolsField(requests[1])
          /\ HasToolsField(requests[j]) =>
               (requests[j].tools = requests[1].tools /\ requests[j].tools = tools)
          /\ tools = DetermineTools(argv))

SameToolsAfterToolUse ==
  /\ Len(requests) = 3
  /\ Len(AdvertisedList(requests[3])) = 2
  /\ toolLog[1].outcome.kind = "resolve"
  /\ toolLog[2].outcome.kind = "reject"

(***************************************************************************)
(* The calculator's command line                                           *)
(***************************************************************************)
ShellOutcomes == IF replies = <<>> THEN CalculatorReplies ELSE FewOutcomes

NextShell ==
  \/ Start
  \/ EndpointFails(ShellOutcomes)
  \/ ReplyWithToolCalls(ShellOutcomes)
  \/ ReplyFinal(ShellOutcomes)
  \/ ToolResolves
  \/ ToolRejects

SpecShell == Init /\ [][NextShell]_vars

CalculatorRuns ==
  {k \in DOMAIN toolLog :
     /\ toolLog[k].call.function.name = "calculator"
     /\ Prop(toolLog[k].call.function.arguments, "expression").t = "string"}

\* C17: whatever the expression, with quotes, semicolons, backslashes,
\* backticks, $ or newlines in it, the shell reads the command line built
\* by Calculator.run as exactly one command, bc -l -e, whose last argument
\* is the expression unchanged: no second command, no substitution.
OnlyBcIsRun ==
  \A k \in CalculatorRuns :
    LET e == Prop(toolLog[k].call.function.arguments, "expression").v
        eff == toolLog[k].outcome.effect
    IN /\ Len(eff) = 1
       /\ eff[1].op = "exec"
       /\ ShellParse(eff[1].arg) =
            [commands |-> << <<(<<"bc">>), <<"-l">>, <<"-e">>, e>> >>,
             substitution |-> FALSE,
             unterminated |-> FALSE]

QuoteAndSemicolonRun ==
  \E k \in CalculatorRuns :
    /\ Prop(toolLog[k].call.function.arguments, "expression").v = <<"'", ";", "$">>
    /\ toolLog[k].settled

(***************************************************************************)
(* Properties of the iteration                                             *)
(***************************************************************************)
AllRepliesRequestTools == \A j \in DOMAIN replies : RequestsTools(replies[j])

Even(n) == n % 2 = 0

\* C19: the roles of the transcript are user, (assistant, tool)*,
\* [assistant]: the only user message is the first, assistant and tool
\* messages alternate, every transcript sent to the endpoint ends with a
\* user or tool message, and the request after k tool-requesting calls
\* carries 2k+1 messages.
RoleSequenceShape ==
  /\ messages[1].role = "user"
  /\ \A i \in 2..Len(messages) :
       /\ messages[i].role = (IF Even(i) THEN "assistant" ELSE "tool")
       /\ messages[i].role # messages[i - 1].role
  /\ \A j \in DOMAIN requests :
       /\ Last(requests[j].messages).role \in {"user", "tool"}
       /\ Len(requests[j].messages) = 2 * (j - 1) + 1
       /\ \A k \in 1..(j - 1) : RequestsTools(replies[k])

FiveMessagesAfterTwoCalls ==
  /\ pc = "awaiting"
  /\ Len(requests) = 3
  /\ Len(Last(requests).messages) = 5
  /\ Last(Last(requests).messages).role = "tool"

RequiredError == Str(<<"Error: latitude and longitude are required.">>)

\* C20: GetCurrentWeather.run answers that latitude and longitude are
\* required if and only if one of them is missing from the arguments; for
\* every numeric pair, zero included, it queries the weather service.
RequiredErrorIffMissing ==
  \A k \in WeatherCalls :
    LET args == toolLog[k].call.function.arguments
        latitude == Prop(args, "latitude")
        longitude == Prop(args, "longitude")
        out == toolLog[k].outcome
    IN args.t = "object" =>
         /\ (out.kind = "resolve" /\ out.value = RequiredError)
              <=> (latitude = Undefined \/ longitude = Undefined)
         /\ (latitude.t = "number" /\ longitude.t = "number") =>
              (Len(out.effect) = 1 /\ out.effect[1].op = "https.get")

====
